---- MODULE Spec2Model ----
(***************************************************************************)
(* Model of build_dashboard (src/dashboard.py): the transformation         *)
(* pipeline from the fetched draw records to the derived tables.           *)
(*                                                                         *)
(* A winning_numbers string is a sequence of one-character strings, so     *)
(* that str.split(" ") and int() are computed, not assumed.  A timestamp   *)
(* is a wall-clock value in whole hours since 2024-01-01T00:00 together    *)
(* with a time zone name; a datetime column is [tz, wall], one tz for the  *)
(* whole column as in a pandas dtype.  The year/multiplier and day-of-week *)
(* tables (lines 82-85) and the chart calls are not modelled.              *)
(***************************************************************************)
EXTENDS Integers, Sequences, FiniteSets

VARIABLES pc, raw, df, whites, powerball, white_df, pb_df, today,
          overdue_df, pair_counts, i, top_pairs, trend_df, result, error

vars == <<pc, raw, df, whites, powerball, white_df, pb_df, today,
          overdue_df, pair_counts, i, top_pairs, trend_df, result, error>>

(* ------------------------------ bounds -------------------------------- *)

\* Most records in one input of the full pipeline (Spec).
MaxDraws == 2

\* Most records in one input when only the draw numbers vary (SpecPairs).
MaxPairDraws == 4

\* Most draws behind the date column handed to the timezone guard (SpecGuard).
MaxGuardDraws == 2

(* ------------------------- program constants -------------------------- *)

\* top_pairs = sorted(...)[:30]
TopN == 30

\* white_df repeats each draw_date 5 times; whites = parts[[0, 1, 2, 3, 4]]
NWhite == 5

\* Timedelta.days counts whole days of 24 hours
HoursPerDay == 24

(* ------------------------------ helpers ------------------------------- *)

Min(a, b) == IF a < b THEN a ELSE b

SetMax(S) == CHOOSE x \in S : \A y \in S : y <= x

SetMin(S) == CHOOSE x \in S : \A y \in S : x <= y

Range(s) == {s[k] : k \in 1..Len(s)}

\* The elements of a finite set of integers, ascending.
SetToSortedSeq(S) ==
    LET n == Cardinality(S)
        Nth(k) == CHOOSE x \in S : Cardinality({y \in S : y < x}) = k - 1
    IN  [k \in 1..n |-> Nth(k)]

\* A stable sort of records, descending by the field key: records with equal
\* keys keep their order in s.
InsertDesc(sorted, x, key) ==
    LET p == Cardinality({k \in 1..Len(sorted) : sorted[k][key] >= x[key]})
    IN  SubSeq(sorted, 1, p) \o <<x>> \o SubSeq(sorted, p + 1, Len(sorted))

StableSortDesc(s, key) ==
    LET F[k \in 0..Len(s)] ==
            IF k = 0 THEN <<>> ELSE InsertDesc(F[k - 1], s[k], key)
    IN  F[Len(s)]

\* The elements of s in ascending order, equal elements in their order in s.
SortAsc(s) ==
    LET Pos(k) == Cardinality({j \in 1..Len(s) :
                       s[j] < s[k] \/ (s[j] = s[k] /\ j <= k)})
    IN  [p \in 1..Len(s) |-> s[CHOOSE k \in 1..Len(s) : Pos(k) = p]]

Reverse(s) == [k \in 1..Len(s) |-> s[Len(s) + 1 - k]]

RECURSIVE SeqSum(_)
SeqSum(s) == IF s = <<>> THEN 0 ELSE Head(s) + SeqSum(Tail(s))

(* --------------------------- number parser ---------------------------- *)

Digits == {"0", "1", "2", "3", "4", "5", "6", "7", "8", "9"}

DigitVal(c) ==
    CASE c = "0" -> 0 [] c = "1" -> 1 [] c = "2" -> 2 [] c = "3" -> 3
      [] c = "4" -> 4 [] c = "5" -> 5 [] c = "6" -> 6 [] c = "7" -> 7
      [] c = "8" -> 8 [] c = "9" -> 9

\* The cell str.split(expand=True) pads a short row with.
NoneCell == <<"None">>

\* str.split(" "): cut at every single space; empty tokens are kept.
RECURSIVE SplitFrom(_, _, _)
SplitFrom(s, cur, k) ==
    IF k > Len(s) THEN <<cur>>
    ELSE IF s[k] = " " THEN <<cur>> \o SplitFrom(s, <<>>, k + 1)
    ELSE SplitFrom(s, Append(cur, s[k]), k + 1)

Split(s) == SplitFrom(s, <<>>, 1)

\* expand=True: one column per token of the longest row, short rows padded.
Expand(rows) ==
    LET ncols == SetMax({Len(rows[r]) : r \in 1..Len(rows)})
    IN  [r \in 1..Len(rows) |->
            [c \in 1..ncols |-> IF c <= Len(rows[r]) THEN rows[r][c] ELSE NoneCell]]

\* int(cell) succeeds on a non-empty string of decimal digits.
IsInt(cell) == Len(cell) > 0 /\ \A k \in 1..Len(cell) : cell[k] \in Digits

ToInt(cell) ==
    LET F[k \in 0..Len(cell)] ==
            IF k = 0 THEN 0 ELSE 10 * F[k - 1] + DigitVal(cell[k])
    IN  F[Len(cell)]

\* parts = df["winning_numbers"].str.split(" ", expand=True)
SplitColumn(col) == Expand([r \in 1..Len(col) |-> Split(col[r])])

\* .astype(int) raises unless every cell of the frame converts.
AstypeOk(parts) ==
    \A r \in 1..Len(parts) : \A c \in 1..Len(parts[r]) : IsInt(parts[r][c])

AstypeInt(parts) ==
    [r \in 1..Len(parts) |-> [c \in 1..Len(parts[r]) |-> ToInt(parts[r][c])]]

NumCols(parts) == Len(parts[1])

\* A parser that puts each draw's white balls in ascending order.
SelectWhitesSorted(parts) ==
    [r \in 1..Len(parts) |-> SortAsc([c \in 1..NWhite |-> parts[r][c]])]

\* whites = parts[[0, 1, 2, 3, 4]]
SelectWhites(parts) ==
    [r \in 1..Len(parts) |-> [c \in 1..NWhite |-> parts[r][c]]]

\* powerball = parts[5]
SelectPowerball(parts) ==
    [r \in 1..Len(parts) |-> parts[r][NWhite + 1]]

(* --------------------------- time handling ---------------------------- *)

NoTz == "naive"

TzNames == {"UTC", "+05:00", "-08:00"}

OffsetHours(tz) ==
    CASE tz = "UTC" -> 0 [] tz = "+05:00" -> 5 [] tz = "-08:00" -> 0 - 8

\* pd.to_datetime(col, utc=True): a string without an offset is read as UTC,
\* one with an offset is converted to UTC.
ToDatetimeUtc(dates) ==
    [tz |-> "UTC",
     wall |-> [r \in 1..Len(dates) |->
                  IF dates[r].tz = NoTz THEN dates[r].wall
                  ELSE dates[r].wall - OffsetHours(dates[r].tz)]]

\* .dt.tz_localize("UTC")
TzLocalizeUtc(col) == [tz |-> "UTC", wall |-> col.wall]

\* .dt.tz_convert("UTC")
TzConvertUtc(col) ==
    [tz |-> "UTC",
     wall |-> [r \in 1..Len(col.wall) |-> col.wall[r] - OffsetHours(col.tz)]]

\* A guard that stamps UTC on every column, whatever offset it carries.
TzGuardStamp(col) == TzLocalizeUtc(col)

\* The timezone guard of lines 59-62.
TzGuard(col) ==
    IF col.tz = NoTz THEN TzLocalizeUtc(col) ELSE TzConvertUtc(col)

\* The absolute instant (hours, UTC) of row r of a tz-aware column.
Instant(col, r) == col.wall[r] - OffsetHours(col.tz)

(* ------------------------------- inputs ------------------------------- *)

\* "01 02 03 04 05 10": the first draw of the documented two-draw scenario
W1 ==
    <<"0", "1", " ", "0", "2", " ", "0", "3", " ", "0", "4", " ", "0", "5", " ", "1", "0">>

\* "05 10 15 20 69 26": the second draw of the documented two-draw scenario
W2 ==
    <<"0", "5", " ", "1", "0", " ", "1", "5", " ", "2", "0", " ", "6", "9", " ", "2", "6">>

\* "30 20 40 11 12 1": white balls not in ascending order
W3 ==
    <<"3", "0", " ", "2", "0", " ", "4", "0", " ", "1", "1", " ", "1", "2", " ", "1">>

\* "7 7 8 9 21 3": a white ball drawn twice
W4 ==
    <<"7", " ", "7", " ", "8", " ", "9", " ", "2", "1", " ", "3">>

\* "1 2 3 4 5": 5 tokens
W5 ==
    <<"1", " ", "2", " ", "3", " ", "4", " ", "5">>

\* "1 2 3 4 5 6 7": 7 tokens
W6 ==
    <<"1", " ", "2", " ", "3", " ", "4", " ", "5", " ", "6", " ", "7">>

\* "1 2 x 4 5 6": a token that is not an integer
W7 ==
    <<"1", " ", "2", " ", "x", " ", "4", " ", "5", " ", "6">>

\* "1  2 3 4 5": a double space: 6 tokens, one of them empty
W8 ==
    <<"1", " ", " ", "2", " ", "3", " ", "4", " ", "5">>

NumberStrings == {W1, W2, W3, W4, W5, W6, W7, W8}

\* draw_date strings: "2024-01-01T00:00:00" (no offset), "2024-01-01T12:00:00Z",
\* "2024-01-08T05:00:00+05:00" and "2024-01-08T00:00:00Z".
DateStrings ==
    {[wall |-> 0, tz |-> NoTz], [wall |-> 12, tz |-> "UTC"],
     [wall |-> 173, tz |-> "+05:00"], [wall |-> 168, tz |-> "UTC"]}

\* The instant a draw_date string denotes.
DateInstant(d) == IF d.tz = NoTz THEN d.wall ELSE d.wall - OffsetHours(d.tz)

\* The query orders the records by draw_date ascending ($order=draw_date ASC).
Ascending(recs) ==
    \A k \in 1..(Len(recs) - 1) :
        DateInstant(recs[k].draw_date) <= DateInstant(recs[k + 1].draw_date)

RecordSeqs(dates, most) ==
    {recs \in UNION {[1..n -> [draw_date : dates, winning_numbers : NumberStrings]] :
                        n \in 0..most} : Ascending(recs)}

Column(recs, field) == [r \in 1..Len(recs) |-> recs[r][field]]

(* --------------------------- table builder ---------------------------- *)

\* A date column tiled 5 times (np.tile) instead of repeated element by element.
Tile5(col) ==
    [tz |-> col.tz,
     wall |-> [k \in 1..(NWhite * Len(col.wall)) |-> col.wall[((k - 1) % Len(col.wall)) + 1]]]

\* df["draw_date"].repeat(5).reset_index(drop=True)
Repeat5(col) ==
    [tz |-> col.tz,
     wall |-> [k \in 1..(NWhite * Len(col.wall)) |-> col.wall[((k - 1) \div NWhite) + 1]]]

\* whites.stack().reset_index(level=1, drop=True).astype(int).reset_index(drop=True)
Stack(rows) ==
    [k \in 1..(NWhite * Len(rows)) |->
        rows[((k - 1) \div NWhite) + 1][((k - 1) % NWhite) + 1]]

\* white_df = pd.DataFrame({"draw_date": ..., "white_ball": ...})
WhiteDf(dates, rows) == [draw_date |-> Repeat5(dates), white_ball |-> Stack(rows)]

\* pb_df = pd.DataFrame({"draw_date": df["draw_date"], "powerball": powerball})
PbDf(dates, pb) == [draw_date |-> dates, powerball |-> pb]

(* ------------------------- overdue calculator ------------------------- *)

\* A reference instant taken from the earliest draw.
TodayMin(col) == SetMin({Instant(col, r) : r \in 1..Len(col.wall)})

\* today = df["draw_date"].max().tz_convert("UTC")
Today(col) == SetMax({Instant(col, r) : r \in 1..Len(col.wall)})

\* last_seen = white_df.groupby("white_ball")["draw_date"].max(), at one key
LastSeen(wdf, ball) ==
    SetMax({Instant(wdf.draw_date, k) :
               k \in {j \in 1..Len(wdf.white_ball) : wdf.white_ball[j] = ball}})

\* (today - last_seen).dt.days: whole days, rounded down
Days(t, seen) == (t - seen) \div HoursPerDay

\* overdue = (today - last_seen).dt.days, indexed by the group keys ascending
Overdue(t, wdf) ==
    LET keys == SetToSortedSeq(Range(wdf.white_ball))
    IN  [k \in 1..Len(keys) |->
            [white_ball |-> keys[k], days |-> Days(t, LastSeen(wdf, keys[k]))]]

\* An overdue table left in group-key order.
OverdueDfUnsorted(t, wdf) == Overdue(t, wdf)

\* overdue.sort_values(ascending=False).rename("days").reset_index()
OverdueDf(t, wdf) == StableSortDesc(Overdue(t, wdf), "days")

(* -------------------------- pair co-occurrence ------------------------ *)

\* The draw's balls taken in column order.
UnsortedBalls(row) == row

\* sorted(whites.iloc[i].values)
SortedBalls(row) == SortAsc(row)

\* itertools.combinations(balls, 2): index pairs p < q, in lexicographic order
RECURSIVE CombinationsFrom(_, _, _)
CombinationsFrom(balls, p, q) ==
    IF p >= Len(balls) THEN <<>>
    ELSE IF q > Len(balls) THEN CombinationsFrom(balls, p + 1, p + 2)
    ELSE <<(<<balls[p], balls[q]>>)>> \o CombinationsFrom(balls, p, q + 1)

Combinations(balls) == CombinationsFrom(balls, 1, 2)

\* An update that stores 1 instead of adding 1 to the count so far.
IncrementLost(d, key) ==
    IF \E k \in 1..Len(d) : d[k].key = key
    THEN [k \in 1..Len(d) |->
            IF d[k].key = key THEN [key |-> key, count |-> 1] ELSE d[k]]
    ELSE Append(d, [key |-> key, count |-> 1])

\* pair_counts[(a, b)] = pair_counts.get((a, b), 0) + 1; a dict keeps its keys
\* in insertion order
Increment(d, key) ==
    IF \E k \in 1..Len(d) : d[k].key = key
    THEN [k \in 1..Len(d) |->
            IF d[k].key = key THEN [key |-> key, count |-> d[k].count + 1] ELSE d[k]]
    ELSE Append(d, [key |-> key, count |-> 1])

\* The inner loop of lines 91-92 over one draw's combinations.
CountPairs(d, pairs) ==
    LET F[k \in 0..Len(pairs)] ==
            IF k = 0 THEN d ELSE Increment(F[k - 1], pairs[k])
    IN  F[Len(pairs)]

\* An ascending sort reversed (sorted(...)[::-1][:30]): ties come out in the
\* reverse of their insertion order.
TopPairsReversed(d) ==
    LET s == StableSortDesc(Reverse(d), "count")
    IN  SubSeq(s, 1, Min(TopN, Len(s)))

\* sorted(pair_counts.items(), key=lambda kv: kv[1], reverse=True)[:30]
TopPairs(d) ==
    LET s == StableSortDesc(d, "count")
    IN  SubSeq(s, 1, Min(TopN, Len(s)))

(* ----------------------------- sum & spread --------------------------- *)

\* sums = whites.sum(axis=1)
Sums(rows) == [r \in 1..Len(rows) |-> SeqSum(rows[r])]

\* A spread taken as last column minus first column.
SpreadsLastFirst(rows) ==
    [r \in 1..Len(rows) |-> rows[r][NWhite] - rows[r][1]]

\* spreads = whites.max(axis=1) - whites.min(axis=1)
Spreads(rows) ==
    [r \in 1..Len(rows) |-> SetMax(Range(rows[r])) - SetMin(Range(rows[r]))]

\* trend_df = pd.DataFrame({"draw_date": df["draw_date"], "sum": sums, "spread": spreads})
TrendDf(dates, rows) ==
    [r \in 1..Len(rows) |->
        [draw_date |-> dates.wall[r], sum |-> Sums(rows)[r], spread |-> Spreads(rows)[r]]]

(* ------------------------------ pipeline ------------------------------ *)

NoColumn == [tz |-> NoTz, wall |-> <<>>]

NoWhiteDf == [draw_date |-> NoColumn, white_ball |-> <<>>]

NoPbDf == [draw_date |-> NoColumn, powerball |-> <<>>]

\* The names of the figures build_dashboard returns.
Figures ==
    {"white_hist", "pb_hist", "overdue", "pp_year", "dow", "pairs_heatmap", "sum_spread"}

\* The state after df = pd.read_json(open_url(base)), for the records recs.
Fetched(recs) ==
    /\ raw = recs
    /\ pc = "to_datetime"
    /\ df = [draw_date |-> NoColumn,
             winning_numbers |-> Column(recs, "winning_numbers")]
    /\ whites = <<>>
    /\ powerball = <<>>
    /\ white_df = NoWhiteDf
    /\ pb_df = NoPbDf
    /\ today = 0
    /\ overdue_df = <<>>
    /\ pair_counts = <<>>
    /\ i = 0
    /\ top_pairs = <<>>
    /\ trend_df = <<>>
    /\ result = {}
    /\ error = "none"

Init == \E recs \in RecordSeqs(DateStrings, MaxDraws) : Fetched(recs)

\* An exception leaves build_dashboard: nothing is returned.
Raise(kind) ==
    /\ pc' = "failed"
    /\ error' = kind
    /\ result' = {}

\* Line 37.  An empty result set has no columns: df["draw_date"] raises.
ToDatetime ==
    /\ pc = "to_datetime"
    /\ IF Len(raw) = 0
       THEN /\ Raise("KeyError")
            /\ UNCHANGED df
       ELSE /\ df' = [df EXCEPT !.draw_date = ToDatetimeUtc(Column(raw, "draw_date"))]
            /\ pc' = "parse"
            /\ UNCHANGED <<result, error>>
    /\ UNCHANGED <<raw, whites, powerball, white_df, pb_df, today, overdue_df,
                   pair_counts, i, top_pairs, trend_df>>

\* Lines 41-43.
ParseNumbers ==
    /\ pc = "parse"
    /\ LET parts == SplitColumn(df.winning_numbers)
       IN  IF ~AstypeOk(parts)
           THEN /\ Raise("ValueError")
                /\ UNCHANGED <<whites, powerball>>
           ELSE IF NumCols(parts) < NWhite + 1
           THEN /\ Raise("KeyError")
                /\ UNCHANGED <<whites, powerball>>
           ELSE /\ whites' = SelectWhites(AstypeInt(parts))
                /\ powerball' = SelectPowerball(AstypeInt(parts))
                /\ pc' = "frames"
                /\ UNCHANGED <<result, error>>
    /\ UNCHANGED <<raw, df, white_df, pb_df, today, overdue_df, pair_counts, i,
                   top_pairs, trend_df>>

\* Lines 46-55.
BuildFrames ==
    /\ pc = "frames"
    /\ white_df' = WhiteDf(df.draw_date, whites)
    /\ pb_df' = PbDf(df.draw_date, powerball)
    /\ pc' = "tz_guard"
    /\ UNCHANGED <<raw, df, whites, powerball, today, overdue_df, pair_counts, i,
                   top_pairs, trend_df, result, error>>

\* Lines 59-62.
TimezoneGuard ==
    /\ pc = "tz_guard"
    /\ white_df' = [white_df EXCEPT !.draw_date = TzGuard(white_df.draw_date)]
    /\ pc' = "aggregates"
    /\ UNCHANGED <<raw, df, whites, powerball, pb_df, today, overdue_df, pair_counts,
                   i, top_pairs, trend_df, result, error>>

\* Lines 70-80.
Aggregates ==
    /\ pc = "aggregates"
    /\ today' = Today(df.draw_date)
    /\ overdue_df' = OverdueDf(Today(df.draw_date), white_df)
    /\ pair_counts' = <<>>
    /\ i' = 0
    /\ pc' = "pairs"
    /\ UNCHANGED <<raw, df, whites, powerball, white_df, pb_df, top_pairs, trend_df,
                   result, error>>

\* Lines 89-92: one iteration of the loop over the draws.
PairLoop ==
    /\ pc = "pairs"
    /\ i < Len(whites)
    /\ pair_counts' = CountPairs(pair_counts, Combinations(SortedBalls(whites[i + 1])))
    /\ i' = i + 1
    /\ UNCHANGED <<pc, raw, df, whites, powerball, white_df, pb_df, today, overdue_df,
                   top_pairs, trend_df, result, error>>

\* Lines 93-94, once the loop has ended.
TopPairsStep ==
    /\ pc = "pairs"
    /\ i = Len(whites)
    /\ top_pairs' = TopPairs(pair_counts)
    /\ pc' = "trend"
    /\ UNCHANGED <<raw, df, whites, powerball, white_df, pb_df, today, overdue_df,
                   pair_counts, i, trend_df, result, error>>

\* Lines 97-99.
Trend ==
    /\ pc = "trend"
    /\ trend_df' = TrendDf(df.draw_date, whites)
    /\ pc' = "render"
    /\ UNCHANGED <<raw, df, whites, powerball, white_df, pb_df, today, overdue_df,
                   pair_counts, i, top_pairs, result, error>>

\* Lines 174-185.
Return ==
    /\ pc = "render"
    /\ result' = Figures
    /\ pc' = "done"
    /\ UNCHANGED <<raw, df, whites, powerball, white_df, pb_df, today, overdue_df,
                   pair_counts, i, top_pairs, trend_df, error>>

Next ==
    \/ ToDatetime
    \/ ParseNumbers
    \/ BuildFrames
    \/ TimezoneGuard
    \/ Aggregates
    \/ PairLoop
    \/ TopPairsStep
    \/ Trend
    \/ Return

Spec == Init /\ [][Next]_vars

\* The same pipeline on inputs whose draws all carry one date, with more draws.
OneDate == {[wall |-> 0, tz |-> "UTC"]}

InitPairs == \E recs \in RecordSeqs(OneDate, MaxPairDraws) : Fetched(recs)

SpecPairs == InitPairs /\ [][Next]_vars

\* The timezone guard alone, on a date column of any dtype: df.draw_date is the
\* column white_df was built from, offset-naive or in any time zone.
WallHours == {0, 12, 168, 173}

GuardColumns ==
    {[tz |-> z, wall |-> w] :
        z \in {NoTz} \cup TzNames,
        w \in UNION {[1..n -> WallHours] : n \in 1..MaxGuardDraws}}

InitGuard ==
    \E col \in GuardColumns :
        /\ raw = <<>>
        /\ pc = "tz_guard"
        /\ df = [draw_date |-> col, winning_numbers |-> <<>>]
        /\ whites = [r \in 1..Len(col.wall) |-> <<1, 2, 3, 4, 5>>]
        /\ powerball = [r \in 1..Len(col.wall) |-> 10]
        /\ white_df = WhiteDf(col, [r \in 1..Len(col.wall) |-> <<1, 2, 3, 4, 5>>])
        /\ pb_df = PbDf(col, [r \in 1..Len(col.wall) |-> 10])
        /\ today = 0
        /\ overdue_df = <<>>
        /\ pair_counts = <<>>
        /\ i = 0
        /\ top_pairs = <<>>
        /\ trend_df = <<>>
        /\ result = {}
        /\ error = "none"

NextGuard == TimezoneGuard

SpecGuard == InitGuard /\ [][NextGuard]_vars

(* ------------------------------- claims ------------------------------- *)

\* The pipeline has parsed the numbers and has not failed.
Parsed == pc \in {"frames", "tz_guard", "aggregates", "pairs", "trend", "render", "done"}

\* white_df exists.
Framed == pc \in {"tz_guard", "aggregates", "pairs", "trend", "render", "done"}

\* The overdue table exists.
Aggregated == pc \in {"pairs", "trend", "render", "done"}

\* The pair loop has ended and top_pairs exists.
Ranked == pc \in {"trend", "render", "done"}

\* winning_numbers of record r is 6 space-separated decimal integers.
SixIntegers(r) ==
    LET toks == Split(raw[r].winning_numbers)
    IN  Len(toks) = 6 /\ \A c \in 1..6 : IsInt(toks[c])

\* C1: once the numbers are parsed, every record whose winning_numbers is 6
\* space-separated decimal integers has white_balls equal to its tokens 1..5 as
\* integers, in column order, and powerball equal to its 6th token, and the
\* parsed rows are those of the records, one each, in input order.
C1_ParseColumnOrder ==
    Parsed =>
        /\ Len(whites) = Len(raw)
        /\ Len(powerball) = Len(raw)
        /\ \A r \in 1..Len(raw) :
              SixIntegers(r) =>
                 LET toks == Split(raw[r].winning_numbers)
                 IN  /\ Len(whites[r]) = 5
                     /\ \A c \in 1..5 : whites[r][c] = ToInt(toks[c])
                     /\ powerball[r] = ToInt(toks[6])

\* Two different draws, the first with its balls out of ascending order, parsed
\* to the integers their strings spell.
C1_Witness ==
    /\ pc = "done"
    /\ Len(raw) = 2
    /\ raw[1].winning_numbers = W3
    /\ raw[2].winning_numbers = W2
    /\ whites = <<(<<30, 20, 40, 11, 12>>), (<<5, 10, 15, 20, 69>>)>>
    /\ powerball = <<1, 26>>

\* A record that does not split into exactly 6 tokens, or has a token that is
\* not an integer.
Malformed ==
    \E r \in 1..Len(raw) : ~SixIntegers(r)

\* C2: if any record's winning_numbers does not split into exactly 6 tokens or
\* has a token that is not an integer, the run never gets past the number
\* parser and returns nothing.
C2_MalformedFails ==
    Malformed => (pc \in {"to_datetime", "parse", "failed"} /\ result = {})

\* The date of draw r, as the UTC instant its draw_date string denotes.
DrawInstant(r) == DateInstant(raw[r].draw_date)

\* C3: the white-ball long table has exactly 5*n rows for n parsed draws, and
\* row 5*d+j (0 <= j < 5) holds draw d's date and draw d's white ball at
\* column j.
C3_LongTable ==
    Framed =>
        /\ Len(white_df.white_ball) = 5 * Len(whites)
        /\ Len(white_df.draw_date.wall) = 5 * Len(whites)
        /\ \A d \in 0..(Len(whites) - 1) : \A j \in 0..4 :
              /\ white_df.white_ball[5 * d + j + 1] = whites[d + 1][j + 1]
              /\ Instant(white_df.draw_date, 5 * d + j + 1) = DrawInstant(d + 1)

\* Two draws on different dates, flattened to 10 rows.
C3_Witness ==
    /\ pc = "done"
    /\ Len(raw) = 2
    /\ DrawInstant(1) # DrawInstant(2)
    /\ Len(white_df.white_ball) = 10
    /\ white_df.white_ball[6] = whites[2][1]
    /\ white_df.draw_date.wall[6] = DrawInstant(2)

\* The sum of the counts of the running pair-count map.
PairTotal == SeqSum([k \in 1..Len(pair_counts) |-> pair_counts[k].count])

\* C4: after i draws have been processed the counts of the pair-count map sum to
\* 10*i, and once the loop has ended every draw has been processed, so they sum
\* to 10*n.
C4_PairTotal ==
    Aggregated =>
        /\ PairTotal = 10 * i
        /\ Ranked => (i = Len(raw) /\ PairTotal = 10 * Len(raw))

\* Four draws processed, with a pair counted more than once.
C4_Witness ==
    /\ pc = "done"
    /\ Len(raw) = 4
    /\ PairTotal = 40
    /\ \E k \in 1..Len(pair_counts) : pair_counts[k].count >= 2
    /\ \E k \in 1..Len(pair_counts) : pair_counts[k].count = 1

\* Ball b was drawn (as a white ball) in draw r.
DrawnIn(b, r) == \E c \in 1..5 : whites[r][c] = b

\* C5 as stated: days is never negative, and an entry with days = 0 belongs to a
\* ball drawn in a draw whose draw_date equals today.
C5_ZeroMeansToday ==
    Aggregated =>
        \A k \in 1..Len(overdue_df) :
            /\ overdue_df[k].days >= 0
            /\ overdue_df[k].days = 0 =>
                  \E r \in 1..Len(raw) :
                      DrawnIn(overdue_df[k].white_ball, r) /\ DrawInstant(r) = today

\* Every draw_date is a midnight UTC.
WholeDays == \A r \in 1..Len(raw) : DrawInstant(r) % HoursPerDay = 0

\* C5, amended: today is the latest draw instant, days is never negative, and an
\* entry with days = 0 belongs to a ball drawn in a draw less than 24 hours
\* before today or at today; at today itself when all draw dates are whole days.
C5_DaysNonNegative ==
    Aggregated =>
        /\ \A r \in 1..Len(raw) : DrawInstant(r) <= today
        /\ \E r \in 1..Len(raw) : DrawInstant(r) = today
        /\ \A k \in 1..Len(overdue_df) :
              /\ overdue_df[k].days >= 0
              /\ overdue_df[k].days = 0 =>
                    \E r \in 1..Len(raw) :
                        /\ DrawnIn(overdue_df[k].white_ball, r)
                        /\ today - DrawInstant(r) < HoursPerDay
                        /\ WholeDays => DrawInstant(r) = today

\* A ball last drawn 12 hours before today, never at today, with days = 0,
\* beside a ball that is a whole week overdue.
C5_Witness ==
    /\ pc = "done"
    /\ \E k \in 1..Len(overdue_df) :
          /\ overdue_df[k].days = 0
          /\ \A r \in 1..Len(raw) :
                DrawnIn(overdue_df[k].white_ball, r) => DrawInstant(r) = today - 12
    /\ \E k \in 1..Len(overdue_df) :
          /\ overdue_df[k].days = 0
          /\ \E r \in 1..Len(raw) :
                DrawnIn(overdue_df[k].white_ball, r) /\ DrawInstant(r) = today

\* C6: the overdue table has exactly one entry per distinct white-ball value of
\* the long table, none for any other value, and its rows are ordered by days,
\* non-increasing.
C6_OverdueTable ==
    Aggregated =>
        /\ {overdue_df[k].white_ball : k \in 1..Len(overdue_df)} = Range(white_df.white_ball)
        /\ \A k, l \in 1..Len(overdue_df) :
              overdue_df[k].white_ball = overdue_df[l].white_ball => k = l
        /\ \A k \in 1..(Len(overdue_df) - 1) : overdue_df[k].days >= overdue_df[k + 1].days

\* A ball drawn in both draws has one entry, and the table runs from a ball a
\* week overdue down to a ball drawn today, though the smaller ball is the
\* more recent one.
C6_Witness ==
    /\ pc = "done"
    /\ Len(overdue_df) < Len(white_df.white_ball)
    /\ overdue_df[1].days = 7
    /\ overdue_df[Len(overdue_df)].days = 0
    /\ \E k, l \in 1..Len(overdue_df) :
          /\ overdue_df[k].white_ball < overdue_df[l].white_ball
          /\ overdue_df[k].days < overdue_df[l].days

\* C7: the timezone guard gives an offset-naive column the UTC offset and leaves
\* its wall-clock values alone, re-expresses an offset-carrying column in UTC
\* at the same absolute instants, and is idempotent: applied to its own output
\* it returns that output; after it every draw_date of the long table is UTC.
C7_GuardIdempotent ==
    pc = "aggregates" =>
        LET before == Repeat5(df.draw_date)
            after == white_df.draw_date
        IN  /\ after.tz = "UTC"
            /\ Len(after.wall) = Len(before.wall)
            /\ before.tz = NoTz => after.wall = before.wall
            /\ before.tz # NoTz =>
                  \A k \in 1..Len(before.wall) :
                      after.wall[k] = before.wall[k] - OffsetHours(before.tz)
            /\ TzGuard(after) = after
            /\ TzGuard(TzGuard(before)) = TzGuard(before)

\* The guard has re-expressed a column of two +05:00 timestamps in UTC, five
\* hours earlier on the clock.
C7_Witness ==
    /\ pc = "aggregates"
    /\ df.draw_date.tz = "+05:00"
    /\ df.draw_date.wall = <<173, 12>>
    /\ white_df.draw_date.tz = "UTC"
    /\ white_df.draw_date.wall[1] = 168
    /\ white_df.draw_date.wall[6] = 7

\* C8: the sum/spread series has one row per draw, in input order, carrying that
\* draw's date, the total of its 5 white balls and the difference between its
\* largest and its smallest white ball, which is never negative.
C8_SumSpread ==
    pc \in {"render", "done"} =>
        /\ Len(trend_df) = Len(raw)
        /\ \A r \in 1..Len(raw) :
              /\ trend_df[r].draw_date = DrawInstant(r)
              /\ trend_df[r].sum =
                    whites[r][1] + whites[r][2] + whites[r][3] + whites[r][4] + whites[r][5]
              /\ \E hi, lo \in 1..5 :
                    /\ \A c \in 1..5 : whites[r][lo] <= whites[r][c] /\ whites[r][c] <= whites[r][hi]
                    /\ trend_df[r].spread = whites[r][hi] - whites[r][lo]
              /\ trend_df[r].spread >= 0

\* The draw "30 20 40 11 12 1" has sum 113 and spread 40 - 11, and the scenario
\* draw "05 10 15 20 69 26" has sum 119 and spread 64.
C8_Witness ==
    /\ pc = "done"
    /\ Len(raw) = 2
    /\ raw[1].winning_numbers = W3
    /\ raw[2].winning_numbers = W2
    /\ DrawInstant(1) # DrawInstant(2)
    /\ trend_df[1].sum = 113
    /\ trend_df[1].spread = 29
    /\ trend_df[2].sum = 119
    /\ trend_df[2].spread = 64

\* C9 as stated: every key (a, b) of the pair-count map has a < b.
C9_StrictKeys ==
    Aggregated =>
        \A k \in 1..Len(pair_counts) : pair_counts[k].key[1] < pair_counts[k].key[2]

\* C9, amended: every key (a, b) of the pair-count map has a <= b, no key occurs
\* twice, and a and b are the white balls at two different columns of one draw
\* already processed (so a < b unless that draw holds the value twice).
C9_KeysOrdered ==
    Aggregated =>
        /\ \A k \in 1..Len(pair_counts) :
              LET a == pair_counts[k].key[1]
                  b == pair_counts[k].key[2]
              IN  /\ a <= b
                  /\ \E r \in 1..i : \E p, q \in 1..5 :
                        p # q /\ whites[r][p] = a /\ whites[r][q] = b
        /\ \A k, l \in 1..Len(pair_counts) :
              pair_counts[k].key = pair_counts[l].key => k = l

\* The draw "7 7 8 9 21 3" has put the key (7, 7) in the map, beside keys in
\* strictly ascending order from a draw whose columns were not ascending.
C9_Witness ==
    /\ pc = "done"
    /\ \E k \in 1..Len(pair_counts) : pair_counts[k].key = <<7, 7>>
    /\ \E k \in 1..Len(pair_counts) : pair_counts[k].key = <<11, 30>>

\* Where key occurs in the pair-count map: its place in discovery order.
PlaceOf(key) == CHOOSE k \in 1..Len(pair_counts) : pair_counts[k].key = key

\* The first draw, in input order, that holds both values of key at two columns.
FirstDraw(key) ==
    SetMin({r \in 1..Len(whites) :
               \E p, q \in 1..5 : p # q /\ whites[r][p] = key[1] /\ whites[r][q] = key[2]})

\* The entries of the pair-count map that top_pairs leaves out.
Omitted == Range(pair_counts) \ Range(top_pairs)

\* C10: the exposed pair table holds min(30, number of distinct keys) rows, each
\* an entry of the pair-count map, ordered by count non-increasing; no omitted
\* pair has a larger count than an included one; and pairs of equal count
\* appear, and are cut off, in the order they were first discovered.
C10_TopPairs ==
    Ranked =>
        /\ Len(top_pairs) = Min(30, Cardinality({pair_counts[k].key : k \in 1..Len(pair_counts)}))
        /\ Range(top_pairs) \subseteq Range(pair_counts)
        /\ \A k, l \in 1..Len(top_pairs) : top_pairs[k] = top_pairs[l] => k = l
        /\ \A k \in 1..(Len(top_pairs) - 1) : top_pairs[k].count >= top_pairs[k + 1].count
        /\ \A e \in Omitted : \A k \in 1..Len(top_pairs) : e.count <= top_pairs[k].count
        /\ \A k, l \in 1..Len(top_pairs) :
              (k < l /\ top_pairs[k].count = top_pairs[l].count) =>
                 /\ PlaceOf(top_pairs[k].key) < PlaceOf(top_pairs[l].key)
                 /\ FirstDraw(top_pairs[k].key) <= FirstDraw(top_pairs[l].key)
        /\ \A e \in Omitted : \A k \in 1..Len(top_pairs) :
              e.count = top_pairs[k].count =>
                 /\ PlaceOf(top_pairs[k].key) < PlaceOf(e.key)
                 /\ FirstDraw(top_pairs[k].key) <= FirstDraw(e.key)

\* More than 30 distinct pairs: the table is cut at 30 in the middle of a run of
\* equal counts, below rows with a larger count.
C10_Witness ==
    /\ pc = "done"
    /\ Len(pair_counts) > 30
    /\ Len(top_pairs) = 30
    /\ top_pairs[1].count > top_pairs[30].count
    /\ \E e \in Omitted : e.count = top_pairs[30].count
    /\ PlaceOf(top_pairs[1].key) > PlaceOf(top_pairs[30].key)

====
